---- MODULE Spec2Model ----
(***************************************************************************)
(* DAGBuilder (components/dag-builder): the React component that owns the  *)
(* graph {nodes, edges}, the selection, the pending connect source and the *)
(* alerts, with one action per event handler of the component.             *)
(*                                                                         *)
(* Every discrete UI event (click, change, mousedown) is one atomic step:  *)
(* React runs the handler against the rendered state, applies the queued   *)
(* updaters and re-renders before the next event is dispatched.  The       *)
(* FileReader of importGraph is asynchronous: its onload callback is a step *)
(* of its own, and the setState it makes is rendered in a later task.      *)
(*                                                                         *)
(* Specifications, each a set of handlers running from the empty graph:    *)
(*   SpecEdit    the editing handlers, no file import                      *)
(*   Spec        SpecEdit and the import of graph documents, each onload   *)
(*               followed at once by its render                            *)
(*   SpecLag     the import with onload and render apart, and the clicks   *)
(*   SpecDecode  SpecEdit and the import of files that hold no graph       *)
(*   SpecDrag    the pointer handlers on imported graphs                   *)
(*   SpecFile    exportGraph and the import of the exported file           *)
(***************************************************************************)
EXTENDS Integers, Sequences, FiniteSets, TLC

\* ---------------------------------------------------------------- bounds
MaxClock == 3        \* Date.now() takes the values 1..MaxClock
MaxNodes == 3        \* addNode is not offered beyond this many nodes
MaxEdges == 3        \* addEdge is not offered beyond this many edges
MaxDocIds == 2       \* ids an imported document may mention: 1..MaxDocIds
MaxDocEdges == 2     \* edges an imported document may carry

\* ------------------------------------------------------------ vocabulary
Null == 0                          \* JavaScript null (falsy), no node id is 0
Ids == 1 .. MaxClock               \* `node-${Date.now()}`
DocIds == 1 .. MaxDocIds

EmptyLabelMsg == "Node label cannot be empty"
DuplicateMsg == "Edge already exists"
CycleMsg == "Cannot add edge: would create a cycle"
InvalidFileMsg == "Invalid file format"
NodeAddedMsg == "Node added successfully"
EdgeAddedMsg == "Edge added successfully"
ImportedMsg == "Graph imported successfully"
NoMsg == "null"

\* Text is a sequence of characters; " " is the only whitespace used.
Space == " "
InputTexts == {<< >>, <<Space>>, <<Space, "a", Space>>}

VARIABLES
  state,            \* [nodes: Seq(Node), edges: Seq(Edge)]
  selectedNode,     \* id or Null
  connectingFrom,   \* id or Null
  newNodeLabel,     \* text of the label input
  error,            \* message or NoMsg
  success,          \* message or NoMsg
  now,              \* value of Date.now() at its latest reading
  isDragging,       \* BOOLEAN
  dragOffset,       \* [x, y]
  pending,          \* the setState of reader.onload that is not rendered yet
  download          \* text of the file exportGraph wrote last, or NoFile

vars == <<state, selectedNode, connectingFrom, newNodeLabel, error, success, now,
          isDragging, dragOffset, pending, download>>

\* ------------------------------------------------------- sequence helpers
Range(s) == {s[i] : i \in DOMAIN s}

\* String.prototype.trim on a text
RECURSIVE TrimLeft(_)
TrimLeft(t) == IF t # << >> /\ Head(t) = Space THEN TrimLeft(Tail(t)) ELSE t

RECURSIVE TrimRight(_)
TrimRight(t) ==
  IF t # << >> /\ t[Len(t)] = Space THEN TrimRight(SubSeq(t, 1, Len(t) - 1)) ELSE t

Trim(t) == TrimRight(TrimLeft(t))

\* ------------------------------------------------------------ data model
\* interface Node {id, label, x, y}; interface Edge {from, to}
Node(id, label, x, y) == [id |-> id, label |-> label, x |-> x, y |-> y]
Edge(from, to) == [from |-> from, to |-> to]
DAGState(nodes, edges) == [nodes |-> nodes, edges |-> edges]

NodeIds(st) == {n.id : n \in Range(st.nodes)}

\* Math.random() * 400 + 100 and Math.random() * 300 + 100: no handler branches
\* on a coordinate, one draw of each is kept.
RandomXs == {100}
RandomYs == {100}

\* ------------------------------------------------------- wouldCreateCycle
\* adjacencyList: one entry per node id, filled from the edges in order (an
\* edge whose from is no node id is skipped by ?.), then the candidate edge.
Successors(edges, id) ==
  LET out == SelectSeq(edges, LAMBDA e : e.from = id)
  IN [i \in DOMAIN out |-> out[i].to]

\* The adjacency list without the candidate edge.
adjacencyList_noCandidate(st, from, to) ==
  [id \in NodeIds(st) |-> Successors(st.edges, id)]

adjacencyList(st, from, to) ==
  [id \in NodeIds(st) |->
     Successors(st.edges, id) \o (IF id = from THEN <<to>> ELSE << >>)]

\* hasCycle(nodeId) with its two sets threaded through the recursion; the
\* result carries the return value and the sets as the call leaves them.
RECURSIVE hasCycle(_, _, _, _)
RECURSIVE scanNeighbors(_, _, _, _, _)
hasCycle(adj, nodeId, visited, recStack) ==
  LET neighbors == IF nodeId \in DOMAIN adj THEN adj[nodeId] ELSE << >>
      r == scanNeighbors(adj, neighbors, 1, visited \cup {nodeId}, recStack \cup {nodeId})
  IN IF r.ret THEN r
     ELSE [ret |-> FALSE, visited |-> r.visited, recStack |-> r.recStack \ {nodeId}]

scanNeighbors(adj, neighbors, i, visited, recStack) ==
  IF i > Len(neighbors)
  THEN [ret |-> FALSE, visited |-> visited, recStack |-> recStack]
  ELSE IF neighbors[i] \notin visited
  THEN LET r == hasCycle(adj, neighbors[i], visited, recStack)
       IN IF r.ret THEN r ELSE scanNeighbors(adj, neighbors, i + 1, r.visited, r.recStack)
  ELSE IF neighbors[i] \in recStack
  THEN [ret |-> TRUE, visited |-> visited, recStack |-> recStack]
  ELSE scanNeighbors(adj, neighbors, i + 1, visited, recStack)

wouldCreateCycle(st, from, to) ==
  IF from = to THEN TRUE
  ELSE hasCycle(adjacencyList(st, from, to), from, {}, {}).ret

\* ---------------------------------------------------------------- addEdge
\* What addEdge(from, to) does to (state, error, success): the two tests read
\* the rendered state st the callback closed over, the updater it queues is
\* applied to prev, the value the state queue holds when it is processed.
\* The duplicate test with the endpoints swapped.
edgeExists_swapped(st, from, to) == \E i \in DOMAIN st.edges : st.edges[i] = Edge(to, from)

edgeExists(st, from, to) == \E i \in DOMAIN st.edges : st.edges[i] = Edge(from, to)

addEdge(st, prev, err, succ, from, to) ==
  IF edgeExists(st, from, to)
  THEN [queued |-> FALSE, state |-> prev, error |-> DuplicateMsg, success |-> succ]
  ELSE IF wouldCreateCycle(st, from, to)
  THEN [queued |-> FALSE, state |-> prev, error |-> CycleMsg, success |-> succ]
  ELSE [queued |-> TRUE, state |-> DAGState(prev.nodes, Append(prev.edges, Edge(from, to))),
        error |-> err, success |-> EdgeAddedMsg]

\* ------------------------------------------------------------- JSON text
\* A text is a sequence of tokens: the punctuation of JSON, the property
\* names, the characters of a string between two quotes, and the decimal
\* digits of a number.  An id n stands for the string `node-${n}`.
Quote == "\""
Digits == <<"0", "1", "2", "3", "4", "5", "6", "7", "8", "9">>
DigitValue(c) == (CHOOSE d \in DOMAIN Digits : Digits[d] = c) - 1
IsDigit(c) == \E d \in DOMAIN Digits : Digits[d] = c

\* Number.POSITIVE_INFINITY, kept as a number above every finite one here;
\* no number of the model is 0, which is Null.
Infinity == 1000
\* The largest decimal exponent a finite double takes (1.79e308)
MaxExponent == 308

RECURSIVE decimalText(_)
decimalText(n) ==
  IF n < 10 THEN <<Digits[n + 1]>> ELSE decimalText(n \div 10) \o <<Digits[(n % 10) + 1]>>
\* JSON.stringify writes null and the numbers that are not finite as null.
numberText(n) == IF n = Infinity \/ n = Null THEN <<"null">> ELSE decimalText(n)
stringText(chars) == <<Quote>> \o chars \o <<Quote>>
idText(id) == <<Quote, "node-">> \o numberText(id) \o <<Quote>>

nodeText(n) ==
  <<"{", "id", ":">> \o idText(n.id) \o <<",", "label", ":">> \o stringText(n.label)
    \o <<",", "x", ":">> \o numberText(n.x) \o <<",", "y", ":">> \o numberText(n.y) \o <<"}">>
edgeText(e) ==
  <<"{", "from", ":">> \o idText(e.from) \o <<",", "to", ":">> \o idText(e.to) \o <<"}">>

RECURSIVE nodesText(_, _)
nodesText(nodes, i) ==
  IF i > Len(nodes) THEN << >>
  ELSE (IF i > 1 THEN <<",">> ELSE << >>) \o nodeText(nodes[i]) \o nodesText(nodes, i + 1)
RECURSIVE edgesText(_, _)
edgesText(edges, i) ==
  IF i > Len(edges) THEN << >>
  ELSE (IF i > 1 THEN <<",">> ELSE << >>) \o edgeText(edges[i]) \o edgesText(edges, i + 1)

\* JSON.stringify(state, null, 2); white space between tokens is left out
JSONstringify(st) ==
  <<"{", "nodes", ":", "[">> \o nodesText(st.nodes, 1)
    \o <<"]", ",", "edges", ":", "[">> \o edgesText(st.edges, 1) \o <<"]", "}">>

\* JSON.parse on the texts exportGraph writes: each reader takes the text and
\* a position and returns the value read and the position after it, or
\* ok = FALSE where JSON.parse throws a SyntaxError.
Failed == [ok |-> FALSE]
At(text, i, tokens) ==
  /\ i + Len(tokens) - 1 <= Len(text)
  /\ SubSeq(text, i, i + Len(tokens) - 1) = tokens

RECURSIVE readDigits(_, _, _)
readDigits(text, i, acc) ==
  IF i <= Len(text) /\ IsDigit(text[i])
  THEN readDigits(text, i + 1, 10 * acc + DigitValue(text[i]))
  ELSE [ok |-> TRUE, value |-> acc, next |-> i]

RECURSIVE Pow10(_)
Pow10(k) == IF k = 0 THEN 1 ELSE 10 * Pow10(k - 1)

\* The one element of a set that holds one element: { e : v \in {reading} }
\* takes a reading once and names it v in e.
The(S) == CHOOSE v \in S : TRUE

\* The number after its digits m: an exponent part may follow.
readExponent(text, m) ==
  IF ~At(text, m.next, <<"e">>) THEN m
  ELSE IF ~(m.next + 1 <= Len(text) /\ IsDigit(text[m.next + 1])) THEN Failed
  ELSE The({ [ok |-> TRUE,
              value |-> IF m.value = 0 THEN 0
                        ELSE IF k.value > MaxExponent THEN Infinity
                        ELSE m.value * Pow10(k.value),
              next |-> k.next] : k \in {readDigits(text, m.next + 1, 0)} })

\* null, or digits with an optional exponent part; a number beyond the
\* doubles is read as Infinity.
readNumber(text, i) ==
  IF At(text, i, <<"null">>) THEN [ok |-> TRUE, value |-> Null, next |-> i + 1]
  ELSE IF ~(i <= Len(text) /\ IsDigit(text[i])) THEN Failed
  ELSE The({ readExponent(text, m) : m \in {readDigits(text, i, 0)} })

RECURSIVE readChars(_, _, _)
readChars(text, i, acc) ==
  IF i > Len(text) THEN Failed
  ELSE IF text[i] = Quote THEN [ok |-> TRUE, value |-> acc, next |-> i + 1]
  ELSE readChars(text, i + 1, Append(acc, text[i]))
readString(text, i) == IF At(text, i, <<Quote>>) THEN readChars(text, i + 1, << >>) ELSE Failed

readId(text, i) ==
  IF ~At(text, i, <<Quote, "node-">>) THEN Failed
  ELSE The({ IF n.ok /\ At(text, n.next, <<Quote>>)
             THEN [ok |-> TRUE, value |-> n.value, next |-> n.next + 1]
             ELSE Failed : n \in {readNumber(text, i + 2)} })

\* The property name and its colon at position i, then the value read by
\* the reading; ok = FALSE if the property is not there.
Named(text, i, name, reading) ==
  IF i # 0 /\ At(text, i, <<name, ":">>) THEN reading ELSE Failed
\* The position after a reading and a comma, 0 if either is missing.
AfterComma(text, r) == IF r.ok /\ At(text, r.next, <<",">>) THEN r.next + 1 ELSE 0

readNode(text, i) ==
  IF ~At(text, i, <<"{">>) THEN Failed
  ELSE The({ The({ The({ The({
         IF y.ok /\ At(text, y.next, <<"}">>)
         THEN [ok |-> TRUE, value |-> Node(id.value, label.value, x.value, y.value),
               next |-> y.next + 1]
         ELSE Failed
         : y \in {Named(text, AfterComma(text, x), "y", readNumber(text, AfterComma(text, x) + 2))} })
         : x \in {Named(text, AfterComma(text, label), "x",
                        readNumber(text, AfterComma(text, label) + 2))} })
         : label \in {Named(text, AfterComma(text, id), "label",
                            readString(text, AfterComma(text, id) + 2))} })
         : id \in {Named(text, i + 1, "id", readId(text, i + 3))} })

readEdge(text, i) ==
  IF ~At(text, i, <<"{">>) THEN Failed
  ELSE The({ The({
         IF to.ok /\ At(text, to.next, <<"}">>)
         THEN [ok |-> TRUE, value |-> Edge(from.value, to.value), next |-> to.next + 1]
         ELSE Failed
         : to \in {Named(text, AfterComma(text, from), "to",
                         readId(text, AfterComma(text, from) + 2))} })
         : from \in {Named(text, i + 1, "from", readId(text, i + 3))} })

\* The elements of an array after its "[", up to and including its "]".
RECURSIVE readNodes(_, _, _)
readNodes(text, i, acc) ==
  IF At(text, i, <<"]">>) /\ acc = << >> THEN [ok |-> TRUE, value |-> acc, next |-> i + 1]
  ELSE The({ IF ~n.ok THEN Failed
             ELSE IF At(text, n.next, <<",">>)
             THEN readNodes(text, n.next + 1, Append(acc, n.value))
             ELSE IF At(text, n.next, <<"]">>)
             THEN [ok |-> TRUE, value |-> Append(acc, n.value), next |-> n.next + 1]
             ELSE Failed : n \in {readNode(text, i)} })
RECURSIVE readEdges(_, _, _)
readEdges(text, i, acc) ==
  IF At(text, i, <<"]">>) /\ acc = << >> THEN [ok |-> TRUE, value |-> acc, next |-> i + 1]
  ELSE The({ IF ~e.ok THEN Failed
             ELSE IF At(text, e.next, <<",">>)
             THEN readEdges(text, e.next + 1, Append(acc, e.value))
             ELSE IF At(text, e.next, <<"]">>)
             THEN [ok |-> TRUE, value |-> Append(acc, e.value), next |-> e.next + 1]
             ELSE Failed : e \in {readEdge(text, i)} })

\* The document of a text, in the form importGraph takes it.
JSONparse(text) ==
  IF ~At(text, 1, <<"{", "nodes", ":", "[">>) THEN [parses |-> FALSE]
  ELSE The({ The({
         IF edges.ok /\ At(text, edges.next, <<"}">>) /\ edges.next = Len(text)
         THEN [parses |-> TRUE, value |-> DAGState(nodes.value, edges.value)]
         ELSE [parses |-> FALSE]
         : edges \in {IF nodes.ok /\ At(text, nodes.next, <<",", "edges", ":", "[">>)
                      THEN readEdges(text, nodes.next + 4, << >>)
                      ELSE Failed} })
         : nodes \in {readNodes(text, 5, << >>)} })

\* A file written by hand: one node whose x is the JSON number 1e999.
OverflowText ==
  <<"{", "nodes", ":", "[", "{", "id", ":">> \o idText(1)
    \o <<",", "label", ":">> \o stringText(<<"a">>)
    \o <<",", "x", ":", "1", "e", "9", "9", "9", ",", "y", ":">> \o numberText(100)
    \o <<"}", "]", ",", "edges", ":", "[", "]", "}">>

\* ------------------------------------------------------------ state queue
\* setState calls made inside a React event handler are rendered before the
\* next event is dispatched.  The setState(imported) of reader.onload is made
\* outside any React handler: it waits in the queue of `state` until React
\* renders in a later task, and an updater queued meanwhile is applied to it.
NoUpdate == [queued |-> FALSE]
\* prev of setState((prev) => ...): the last value the queue of `state` holds
Prev == IF pending.queued THEN pending.value ELSE state

\* No file has been exported yet.
NoFile == << >>

\* ------------------------------------------------------------------- Init
Init ==
  /\ state = DAGState(<< >>, << >>)
  /\ selectedNode = Null
  /\ connectingFrom = Null
  /\ newNodeLabel = << >>
  /\ error = NoMsg
  /\ success = NoMsg
  /\ now = 1
  /\ isDragging = FALSE
  /\ dragOffset = [x |-> 0, y |-> 0]
  /\ pending = NoUpdate
  /\ download = NoFile

\* ---------------------------------------------------------------- actions
\* <Input onChange={(e) => setNewNodeLabel(e.target.value)}>
setNewNodeLabel(text) ==
  /\ text # newNodeLabel
  /\ newNodeLabel' = text
  /\ UNCHANGED <<state, selectedNode, connectingFrom, error, success, now>>
  /\ UNCHANGED <<isDragging, dragOffset, pending, download>>

\* addNode that stores the label as typed.
addNode_untrimmed ==
  IF Trim(newNodeLabel) = << >>
  THEN /\ error' = EmptyLabelMsg
       /\ UNCHANGED <<state, selectedNode, connectingFrom, newNodeLabel, success, now>>
       /\ UNCHANGED <<isDragging, dragOffset, pending, download>>
  ELSE /\ Len(Prev.nodes) < MaxNodes
       /\ \E t \in {i \in Ids : i >= now}, rx \in RandomXs, ry \in RandomYs :
            /\ now' = t
            /\ state' = DAGState(Append(Prev.nodes, Node(t, newNodeLabel, rx, ry)),
                                 Prev.edges)
       /\ pending' = NoUpdate
       /\ newNodeLabel' = << >>
       /\ success' = NodeAddedMsg
       /\ UNCHANGED <<selectedNode, connectingFrom, error, isDragging, dragOffset, download>>

\* addNode: Date.now() is read once per call and never runs backwards.
addNode ==
  IF Trim(newNodeLabel) = << >>
  THEN /\ error' = EmptyLabelMsg
       /\ UNCHANGED <<state, selectedNode, connectingFrom, newNodeLabel, success, now>>
       /\ UNCHANGED <<isDragging, dragOffset, pending, download>>
  ELSE /\ Len(Prev.nodes) < MaxNodes
       /\ \E t \in {i \in Ids : i >= now}, rx \in RandomXs, ry \in RandomYs :
            /\ now' = t
            /\ state' = DAGState(Append(Prev.nodes, Node(t, Trim(newNodeLabel), rx, ry)),
                                 Prev.edges)
       /\ pending' = NoUpdate
       /\ newNodeLabel' = << >>
       /\ success' = NodeAddedMsg
       /\ UNCHANGED <<selectedNode, connectingFrom, error, isDragging, dragOffset, download>>

\* deleteNode that filters the edges on their from alone.
deleteNode_outgoingOnly(nodeId) ==
  /\ state' = DAGState(SelectSeq(Prev.nodes, LAMBDA n : n.id # nodeId),
                       SelectSeq(Prev.edges, LAMBDA e : e.from # nodeId))
  /\ pending' = NoUpdate
  /\ selectedNode' = Null
  /\ connectingFrom' = Null
  /\ UNCHANGED <<newNodeLabel, error, success, now, isDragging, dragOffset, download>>

deleteNode(nodeId) ==
  /\ state' = DAGState(SelectSeq(Prev.nodes, LAMBDA n : n.id # nodeId),
                       SelectSeq(Prev.edges, LAMBDA e : e.from # nodeId /\ e.to # nodeId))
  /\ pending' = NoUpdate
  /\ selectedNode' = Null
  /\ connectingFrom' = Null
  /\ UNCHANGED <<newNodeLabel, error, success, now, isDragging, dragOffset, download>>

\* deleteEdge that filters the edges on their from alone.
deleteEdge_byFrom(from, to) ==
  /\ state' = DAGState(Prev.nodes, SelectSeq(Prev.edges, LAMBDA e : e.from # from))
  /\ pending' = NoUpdate
  /\ UNCHANGED <<selectedNode, connectingFrom, newNodeLabel, error, success, now>>
  /\ UNCHANGED <<isDragging, dragOffset, download>>

deleteEdge(from, to) ==
  /\ state' = DAGState(Prev.nodes,
                       SelectSeq(Prev.edges, LAMBDA e : ~(e.from = from /\ e.to = to)))
  /\ pending' = NoUpdate
  /\ UNCHANGED <<selectedNode, connectingFrom, newNodeLabel, error, success, now>>
  /\ UNCHANGED <<isDragging, dragOffset, download>>

\* handleNodeClick without the connectingFrom !== nodeId test.
handleNodeClick_noSourceTest(nodeId) ==
  IF connectingFrom # Null
  THEN /\ LET r == addEdge(state, Prev, error, success, connectingFrom, nodeId)
          IN /\ Len(r.state.edges) <= MaxEdges
             /\ IF r.queued
                THEN state' = r.state /\ pending' = NoUpdate
                ELSE UNCHANGED <<state, pending>>
             /\ error' = r.error
             /\ success' = r.success
       /\ connectingFrom' = Null
       /\ UNCHANGED <<selectedNode, newNodeLabel, now, isDragging, dragOffset, download>>
  ELSE /\ selectedNode' = nodeId
       /\ UNCHANGED <<state, connectingFrom, newNodeLabel, error, success, now>>
       /\ UNCHANGED <<isDragging, dragOffset, pending, download>>

handleNodeClick(nodeId) ==
  IF connectingFrom # Null
  THEN /\ IF connectingFrom # nodeId
          THEN LET r == addEdge(state, Prev, error, success, connectingFrom, nodeId)
               IN /\ Len(r.state.edges) <= MaxEdges
                  /\ IF r.queued
                     THEN state' = r.state /\ pending' = NoUpdate
                     ELSE UNCHANGED <<state, pending>>
                  /\ error' = r.error
                  /\ success' = r.success
          ELSE UNCHANGED <<state, error, success, pending>>
       /\ connectingFrom' = Null
       /\ UNCHANGED <<selectedNode, newNodeLabel, now, isDragging, dragOffset, download>>
  ELSE /\ selectedNode' = nodeId
       /\ UNCHANGED <<state, connectingFrom, newNodeLabel, error, success, now>>
       /\ UNCHANGED <<isDragging, dragOffset, pending, download>>

startConnection(nodeId) ==
  /\ connectingFrom' = nodeId
  /\ selectedNode' = Null
  /\ UNCHANGED <<state, newNodeLabel, error, success, now>>
  /\ UNCHANGED <<isDragging, dragOffset, pending, download>>

\* canvasRef.current.getBoundingClientRect(): the canvas card on the page
RectLeft == 10
RectTop == 10
RectWidth == 200
RectHeight == 200

\* e.button: 0 is the main button
Buttons == {0, 2}
\* Where on a node the pointer goes down, measured from the node's centre
GrabXs == {0}
GrabYs == {0}
\* e.clientX, e.clientY of the mousemove events
MoveXs == {0, 300}
MoveYs == {150}

Max(a, b) == IF a >= b THEN a ELSE b
Min(a, b) == IF a <= b THEN a ELSE b

\* state.nodes.find((n) => n.id === nodeId): the first node with the id
find(nodes, nodeId) ==
  nodes[CHOOSE i \in DOMAIN nodes :
          /\ nodes[i].id = nodeId
          /\ \A k \in DOMAIN nodes : k < i => nodes[k].id # nodeId]

handleNodeMouseDown(button, clientX, clientY, nodeId) ==
  IF button # 0
  THEN UNCHANGED vars
  ELSE /\ isDragging' = TRUE
       /\ selectedNode' = nodeId
       /\ IF \E n \in Range(state.nodes) : n.id = nodeId
          THEN dragOffset' = [x |-> clientX - find(state.nodes, nodeId).x,
                              y |-> clientY - find(state.nodes, nodeId).y]
          ELSE UNCHANGED dragOffset
       /\ UNCHANGED <<state, connectingFrom, newNodeLabel, error, success, now>>
       /\ UNCHANGED <<pending, download>>

\* handleMouseMove without the !isDragging test.
handleMouseMove_noDragTest(clientX, clientY) ==
  IF selectedNode = Null
  THEN UNCHANGED vars
  ELSE LET x == Max(30, Min(clientX - RectLeft - dragOffset.x, RectWidth - 30))
           y == Max(30, Min(clientY - RectTop - dragOffset.y, RectHeight - 30))
       IN /\ state' = DAGState([i \in DOMAIN Prev.nodes |->
                                  IF Prev.nodes[i].id = selectedNode
                                  THEN [Prev.nodes[i] EXCEPT !.x = x, !.y = y]
                                  ELSE Prev.nodes[i]],
                               Prev.edges)
          /\ pending' = NoUpdate
          /\ UNCHANGED <<selectedNode, connectingFrom, newNodeLabel, error, success, now>>
          /\ UNCHANGED <<isDragging, dragOffset, download>>

\* canvasRef.current is set for as long as the component is mounted.
handleMouseMove(clientX, clientY) ==
  IF ~isDragging \/ selectedNode = Null
  THEN UNCHANGED vars
  ELSE LET x == Max(30, Min(clientX - RectLeft - dragOffset.x, RectWidth - 30))
           y == Max(30, Min(clientY - RectTop - dragOffset.y, RectHeight - 30))
       IN /\ state' = DAGState([i \in DOMAIN Prev.nodes |->
                                  IF Prev.nodes[i].id = selectedNode
                                  THEN [Prev.nodes[i] EXCEPT !.x = x, !.y = y]
                                  ELSE Prev.nodes[i]],
                               Prev.edges)
          /\ pending' = NoUpdate
          /\ UNCHANGED <<selectedNode, connectingFrom, newNodeLabel, error, success, now>>
          /\ UNCHANGED <<isDragging, dragOffset, download>>

\* onMouseUp and onMouseLeave of the canvas
handleMouseUp ==
  /\ isDragging' = FALSE
  /\ UNCHANGED <<state, selectedNode, connectingFrom, newNodeLabel, error, success, now>>
  /\ UNCHANGED <<dragOffset, pending, download>>

\* The documents a file may hold: text JSON.parse throws on, or the value
\* JSON.parse returns for it.
DocNode(id) == Node(id, <<"a">>, 100, 100)
DocNodeLists == {[i \in 1 .. k |-> DocNode(i)] : k \in 0 .. MaxDocIds}
DocEdges == {Edge(f, t) : f \in DocIds, t \in DocIds}
DocEdgeLists == UNION {[1 .. k -> DocEdges] : k \in 0 .. MaxDocEdges}
Docs ==
  {[parses |-> FALSE]} \cup
  {[parses |-> TRUE, value |-> DAGState(ns, es)] : ns \in DocNodeLists, es \in DocEdgeLists}

\* Files that hold no graph: text JSON.parse throws on, and JSON values
\* without the nodes field, without the edges field, or with a node record
\* that lacks a field.
MalformedDocs ==
  { [parses |-> FALSE],
    [parses |-> TRUE, value |-> [edges |-> << >>]],
    [parses |-> TRUE, value |-> [nodes |-> <<DocNode(1)>>]],
    [parses |-> TRUE, value |-> DAGState(<<[id |-> 1, x |-> 100, y |-> 100]>>, << >>)] }

\* The JSX reads state.nodes.length, state.edges.length and maps over both:
\* on a value without one of the two fields the render throws a TypeError,
\* and with no error boundary around it React unmounts the component.
RenderThrows(st) == ~({"nodes", "edges"} \subseteq DOMAIN st)

\* importGraph: the handler only starts a FileReader, a local object that no
\* other handler reads; the step that changes the component is reader.onload,
\* which runs at some later time with the text of the chosen file.
importGraph(doc) ==
  /\ IF doc.parses
     THEN /\ state' = doc.value
          /\ success' = ImportedMsg
          /\ UNCHANGED error
     ELSE /\ error' = InvalidFileMsg
          /\ UNCHANGED <<state, success>>
  /\ UNCHANGED <<selectedNode, connectingFrom, newNodeLabel, now>>
  /\ UNCHANGED <<isDragging, dragOffset, pending, download>>

\* reader.onload when React has not rendered yet by the time the next event
\* is dispatched: setState(imported) is queued, a later onload replaces it.
onload(doc) ==
  /\ IF doc.parses
     THEN /\ pending' = [queued |-> TRUE, value |-> doc.value]
          /\ success' = ImportedMsg
          /\ UNCHANGED error
     ELSE /\ error' = InvalidFileMsg
          /\ UNCHANGED <<pending, success>>
  /\ UNCHANGED <<state, selectedNode, connectingFrom, newNodeLabel, now>>
  /\ UNCHANGED <<isDragging, dragOffset, download>>

\* React renders the queued setState(imported).
render ==
  /\ pending.queued
  /\ state' = pending.value
  /\ pending' = NoUpdate
  /\ UNCHANGED <<selectedNode, connectingFrom, newNodeLabel, error, success, now>>
  /\ UNCHANGED <<isDragging, dragOffset, download>>

\* exportGraph: the text goes into a Blob the browser saves as
\* dag-graph.json; the component keeps nothing of it.
exportGraph ==
  /\ download' = JSONstringify(state)
  /\ UNCHANGED <<state, selectedNode, connectingFrom, newNodeLabel, error, success, now>>
  /\ UNCHANGED <<isDragging, dragOffset, pending>>

\* clearGraph without setConnectingFrom(null).
clearGraph_keepsSource ==
  /\ state' = DAGState(<< >>, << >>)
  /\ pending' = NoUpdate
  /\ selectedNode' = Null
  /\ UNCHANGED <<connectingFrom, newNodeLabel, error, success, now>>
  /\ UNCHANGED <<isDragging, dragOffset, download>>

clearGraph ==
  /\ state' = DAGState(<< >>, << >>)
  /\ pending' = NoUpdate
  /\ selectedNode' = Null
  /\ connectingFrom' = Null
  /\ UNCHANGED <<newNodeLabel, error, success, now, isDragging, dragOffset, download>>

\* setTimeout(() => setError(null), 3000)
errorTimeout ==
  /\ error # NoMsg
  /\ error' = NoMsg
  /\ UNCHANGED <<state, selectedNode, connectingFrom, newNodeLabel, success, now>>
  /\ UNCHANGED <<isDragging, dragOffset, pending, download>>

\* setTimeout(() => setSuccess(null), 2000)
successTimeout ==
  /\ success # NoMsg
  /\ success' = NoMsg
  /\ UNCHANGED <<state, selectedNode, connectingFrom, newNodeLabel, error, now>>
  /\ UNCHANGED <<isDragging, dragOffset, pending, download>>

\* ------------------------------------------------- the rendered controls
\* "Delete node" and "Connect to another node" exist while selectedNode is set.
ClickDeleteNode == selectedNode # Null /\ deleteNode(selectedNode)
ClickConnect == selectedNode # Null /\ startConnection(selectedNode)
\* One clickable circle per rendered node.
ClickNode == \E n \in Range(state.nodes) : handleNodeClick(n.id)
\* One clickable line per edge whose two endpoints are rendered nodes.
ClickEdge ==
  \E e \in Range(state.edges) :
    /\ e.from \in NodeIds(state)
    /\ e.to \in NodeIds(state)
    /\ deleteEdge(e.from, e.to)
\* "Clear Graph" is disabled while there is no node.
ClickClear == state.nodes # << >> /\ clearGraph
TypeLabel == \E text \in InputTexts : setNewNodeLabel(text)
\* The pointer goes down on a rendered node, which is drawn around
\* (rect.left + node.x, rect.top + node.y).
MouseDown ==
  \E n \in Range(state.nodes), button \in Buttons, gx \in GrabXs, gy \in GrabYs :
    handleNodeMouseDown(button, RectLeft + n.x + gx, RectTop + n.y + gy, n.id)
MouseMove == \E clientX \in MoveXs, clientY \in MoveYs : handleMouseMove(clientX, clientY)
MouseUp == handleMouseUp
FileLoaded == \E doc \in Docs : importGraph(doc)
\* "Export Graph" is disabled while there is no node.
ClickExport == state.nodes # << >> /\ exportGraph
\* The file chosen for import is the one exportGraph saved last.
FileReloaded == download # NoFile /\ importGraph(JSONparse(download))
FileOverflow == importGraph(JSONparse(OverflowText))

NextEdit ==
  \/ TypeLabel
  \/ addNode
  \/ ClickNode
  \/ ClickConnect
  \/ ClickDeleteNode
  \/ ClickEdge
  \/ ClickClear
  \/ errorTimeout
  \/ successTimeout

Next ==
  \/ NextEdit
  \/ FileLoaded

\* The editing handlers and the import of files that hold no graph; an
\* unmounted component handles no event.
FileMalformed == \E doc \in MalformedDocs : importGraph(doc)

NextDecode ==
  \/ ~RenderThrows(state) /\ TypeLabel
  \/ ~RenderThrows(state) /\ addNode
  \/ ~RenderThrows(state) /\ ClickNode
  \/ ~RenderThrows(state) /\ ClickConnect
  \/ ~RenderThrows(state) /\ ClickDeleteNode
  \/ ~RenderThrows(state) /\ ClickEdge
  \/ ~RenderThrows(state) /\ ClickClear
  \/ ~RenderThrows(state) /\ errorTimeout
  \/ ~RenderThrows(state) /\ successTimeout
  \/ ~RenderThrows(state) /\ FileMalformed

\* Loading a graph, connecting its nodes, and the pointer on the canvas.
NextDrag ==
  \/ FileLoaded
  \/ ClickNode
  \/ ClickConnect
  \/ ClickDeleteNode
  \/ ClickEdge
  \/ ClickClear
  \/ MouseDown
  \/ MouseMove
  \/ MouseUp

\* Loading a graph, connecting its nodes, saving it and loading files back.
NextFile ==
  \/ FileLoaded
  \/ ClickNode
  \/ ClickConnect
  \/ ClickExport
  \/ FileReloaded
  \/ FileOverflow

\* The file import with its two halves apart, and the clicks on the graph.
FileRead == \E doc \in Docs : onload(doc)

NextLag ==
  \/ FileRead
  \/ render
  \/ ClickNode
  \/ ClickConnect
  \/ ClickDeleteNode
  \/ ClickEdge
  \/ ClickClear

Spec == Init /\ [][Next]_vars
SpecLag == Init /\ [][NextLag]_vars
SpecDecode == Init /\ [][NextDecode]_vars
SpecDrag == Init /\ [][NextDrag]_vars
SpecFile == Init /\ [][NextFile]_vars
SpecEdit == Init /\ [][NextEdit]_vars

\* ------------------------------------------------------ graph vocabulary
\* Ids reachable from the ids of S along one or more edges.
RECURSIVE ReachFrom(_, _)
ReachFrom(edges, S) ==
  LET step == S \cup {e.to : e \in {d \in Range(edges) : d.from \in S}}
  IN IF step = S THEN S ELSE ReachFrom(edges, step)

\* v can reach u along the edges
Reaches(edges, v, u) ==
  u \in ReachFrom(edges, {e.to : e \in {d \in Range(edges) : d.from = v}})

\* A finite edge set has no directed cycle exactly when removing, over and
\* over, the edges that lead to an id with no outgoing edge leaves nothing.
RECURSIVE NoCycle(_)
NoCycle(E) ==
  IF E = {} THEN TRUE
  ELSE LET rest == {e \in E : \E d \in E : d.from = e.to}
       IN IF rest = E THEN FALSE ELSE NoCycle(rest)

\* A connect-mode click on node n that reaches addEdge(connectingFrom, n).
AddEdgeCall(n) ==
  /\ connectingFrom # Null
  /\ connectingFrom # n
  /\ handleNodeClick(n)

\* --------------------------------------------------------------------- C1
\* C1: starting from the empty graph, after any sequence of interactive
\* edits (addNode, addEdge through connect-mode clicks, deleteNode, and also
\* deleteEdge and clearGraph) the edge set contains no directed cycle.
C1_AcyclicUnderEdits == NoCycle(Range(state.edges))

\* Three nodes carrying the three edges of a transitive triangle: every
\* further edge between them was or would be refused.
C1_Witness ==
  /\ Cardinality(NodeIds(state)) = 3
  /\ Len(state.edges) = 3
  /\ error = CycleMsg

\* --------------------------------------------------------------------- C2
\* C2: in every reachable state, under all operations including importGraph
\* and clearGraph, the directed graph formed by the edges over the nodes has
\* no cycle (an import would have to re-validate acyclicity).
C2_AcyclicAlways ==
  LET live == SelectSeq(state.edges,
                        LAMBDA e : e.from \in NodeIds(state) /\ e.to \in NodeIds(state))
  IN \A n \in NodeIds(state) : ~Reaches(live, n, n)

\* --------------------------------------------------------------------- C3
\* C3: in every reachable state every edge's from and to are ids of nodes
\* currently in the node list.
C3_NoDanglingEdges ==
  \A e \in Range(state.edges) : e.from \in NodeIds(state) /\ e.to \in NodeIds(state)

\* --------------------------------------------------------------------- C4
\* C4: importing a document with an edge whose from or to is not the id of a
\* node of that document fails with 'Invalid file format' and leaves the
\* loaded nodes and edges unchanged.
HasDanglingEdge(g) ==
  \E e \in Range(g.edges) : e.from \notin NodeIds(g) \/ e.to \notin NodeIds(g)

C4_DanglingImportRejected ==
  [][\A doc \in Docs :
       (doc.parses /\ HasDanglingEdge(doc.value) /\ importGraph(doc))
         => (state' = state /\ error' = InvalidFileMsg)]_vars

\* --------------------------------------------------------------------- C5
\* The reason addEdge(from, to) is to report by the order UnknownNode,
\* SelfLoop, DuplicateEdge, WouldCreateCycle ("Ok": all four checks pass);
\* the fourth check is the cycle oracle as it stands.
ExpectedReason(st, from, to) ==
  IF from \notin NodeIds(st) \/ to \notin NodeIds(st) THEN "UnknownNode"
  ELSE IF from = to THEN "SelfLoop"
  ELSE IF Edge(from, to) \in Range(st.edges) THEN "DuplicateEdge"
  ELSE IF wouldCreateCycle(st, from, to) THEN "WouldCreateCycle"
  ELSE "Ok"

\* The reason the code reports for the call, read off the alert it sets.
ReportedReason(st, from, to) ==
  LET r == addEdge(st, st, NoMsg, NoMsg, from, to)
  IN IF r.error = DuplicateMsg THEN "DuplicateEdge"
     ELSE IF r.error = CycleMsg THEN "WouldCreateCycle"
     ELSE "Ok"

\* C5: every addEdge call reports the first check that fires in the order
\* UnknownNode, SelfLoop, DuplicateEdge, WouldCreateCycle, and appends the
\* edge only if all four pass.
C5_CheckOrder ==
  [][\A n \in NodeIds(state) :
       AddEdgeCall(n) =>
         /\ ReportedReason(state, connectingFrom, n) = ExpectedReason(state, connectingFrom, n)
         /\ (state'.edges # state.edges) <=> (ExpectedReason(state, connectingFrom, n) = "Ok")]_vars

C7_SecondAddIsDuplicate ==
  [][\A b \in NodeIds(state) :
       (state'.edges = Append(state.edges, Edge(connectingFrom, b)) /\ AddEdgeCall(b))
         => /\ addEdge(state', state', error', success', connectingFrom, b).error = DuplicateMsg
            /\ addEdge(state', state', error', success', connectingFrom, b).state = state'
            /\ addEdge(state', state', error', success', connectingFrom, b).success = success']_vars

\* The alert of the first, successful call is still shown when the second
\* call on the only edge has reported the duplicate.
C7_Witness ==
  /\ Len(state.edges) = 1
  /\ success = EdgeAddedMsg
  /\ error = DuplicateMsg

\* --------------------------------------------------------------------- C8
\* C8: whenever to can reach from along the existing edges, addEdge(from, to)
\* for an edge not yet in the list reports 'would create a cycle' and leaves
\* nodes and edges unchanged.
C8_CycleRefused ==
  [][\A n \in NodeIds(state) :
       (/\ AddEdgeCall(n)
        /\ Edge(connectingFrom, n) \notin Range(state.edges)
        /\ Reaches(state.edges, n, connectingFrom))
         => (error' = CycleMsg /\ state' = state)]_vars

\* --------------------------------------------------------------------- C9
\* C9: for every pair of existing nodes u, v, wouldCreateCycle(u, v) is true
\* exactly when u = v or v can reach u along the current edges.
C9_OracleIsReachability ==
  \A u \in NodeIds(state), v \in NodeIds(state) :
    wouldCreateCycle(state, u, v) <=> (u = v \/ Reaches(state.edges, v, u))

\* -------------------------------------------------------------------- C10
\* The elements of s that satisfy Keep, in their order in s, stated through
\* the positions they keep rather than through a filter.
KeptPositions(s, Keep(_)) == {i \in DOMAIN s : Keep(s[i])}
IsRestriction(t, s, Keep(_)) ==
  /\ Len(t) = Cardinality(KeptPositions(s, Keep))
  /\ \A i \in KeptPositions(s, Keep) :
       t[Cardinality({k \in KeptPositions(s, Keep) : k <= i})] = s[i]

\* C10: deleteNode(id) for an existing id removes in one step exactly the
\* node(s) carrying that id and every edge with from = id or to = id; all
\* other nodes and edges remain in their previous relative order.
C10_CascadeDelete ==
  [][(selectedNode \in NodeIds(state) /\ deleteNode(selectedNode))
       => /\ IsRestriction(state'.nodes, state.nodes, LAMBDA n : n.id # selectedNode)
          /\ IsRestriction(state'.edges, state.edges,
                           LAMBDA e : e.from # selectedNode /\ e.to # selectedNode)]_vars

\* Nodes 1, 2, 3 had the edges 1->2 and 2->3; node 2 is gone and so are both
\* edges, while the alert of the last added edge is still shown.
C10_Witness ==
  /\ [i \in DOMAIN state.nodes |-> state.nodes[i].id] = <<1, 3>>
  /\ state.edges = << >>
  /\ success = EdgeAddedMsg
  /\ selectedNode = Null
  /\ now = 3

\* -------------------------------------------------------------------- C11
\* C11: in every reachable state the nodes have pairwise distinct ids: each
\* successful addNode allocates an id no node of the graph carries, for any
\* timing of consecutive addNode calls and after any import.
C11_DistinctIds ==
  \A i \in DOMAIN state.nodes, j \in DOMAIN state.nodes :
    i # j => state.nodes[i].id # state.nodes[j].id

\* -------------------------------------------------------------------- C12
\* C12: in every reachable state, under any sequence of operations including
\* importGraph, the edge list holds at most one edge per ordered (from, to)
\* pair.
C12_OneEdgePerPair ==
  \A i \in DOMAIN state.edges, j \in DOMAIN state.edges :
    i # j => state.edges[i] # state.edges[j]

\* -------------------------------------------------------------------- C13
\* C13: importing a document that is no well-formed graph (unparseable text,
\* or parseable but without the nodes or the edges field, or with them in the
\* wrong shape) reports 'Invalid file format', raises no uncontrolled error
\* and leaves nodes and edges as they were.
C13_MalformedRejected ==
  [][\A doc \in MalformedDocs :
       importGraph(doc)
         => /\ error' = InvalidFileMsg
            /\ state' = state
            /\ ~RenderThrows(state')]_vars

\* -------------------------------------------------------------------- C14
\* C14: exportGraph leaves the state as it is, and the document it writes,
\* read back by JSON.parse, is the graph exported: the same nodes (id, label,
\* x, y) and the same edges in the same order; importGraph of the exported
\* file makes that document the state.
C14_RoundTrip ==
  /\ [][exportGraph
          => /\ UNCHANGED <<state, selectedNode, connectingFrom, error, success>>
             /\ JSONparse(download') = [parses |-> TRUE, value |-> state]]_vars
  /\ [][(download # NoFile /\ importGraph(JSONparse(download)))
          => /\ JSONparse(download).parses
             /\ state' = JSONparse(download).value
             /\ success' = ImportedMsg]_vars

\* -------------------------------------------------------------------- C15
\* t is text with its leading and trailing whitespace removed and nothing else
\* changed.
IsTrimOf(t, text) ==
  /\ t = << >> \/ (t[1] # Space /\ t[Len(t)] # Space)
  /\ \E a \in 0 .. Len(text) :
       /\ a + Len(t) <= Len(text)
       /\ \A i \in 1 .. Len(text) :
            IF i > a /\ i <= a + Len(t) THEN text[i] = t[i - a] ELSE text[i] = Space

\* C15: addNode with a label that is empty after trimming reports the
\* empty-label reason and leaves nodes and edges unchanged; with any other
\* label it appends exactly one node, carrying the trimmed label, at the end
\* of the node list, and all existing nodes and all edges are unchanged.
C15_AddNode ==
  [][addNode =>
       IF \A i \in DOMAIN newNodeLabel : newNodeLabel[i] = Space
       THEN error' = EmptyLabelMsg /\ state' = state
       ELSE /\ Len(state'.nodes) = Len(state.nodes) + 1
            /\ SubSeq(state'.nodes, 1, Len(state.nodes)) = state.nodes
            /\ IsTrimOf(state'.nodes[Len(state'.nodes)].label, newNodeLabel)
            /\ state'.nodes[Len(state'.nodes)].label # << >>
            /\ state'.edges = state.edges]_vars

\* An edge joins two nodes, a further addNode was refused for its blank label
\* and the graph kept both the nodes and the edge.
C15_Witness ==
  /\ Len(state.nodes) = 2
  /\ Len(state.edges) = 1
  /\ error = EmptyLabelMsg
  /\ \A n \in Range(state.nodes) : n.label = <<"a">>

\* -------------------------------------------------------------------- C16
\* C16: deleteEdge(from, to) removes the edge with exactly those endpoints if
\* present and has no other effect: the node list is unchanged and every
\* other edge keeps its relative order; if no such edge exists no step of
\* deleteEdge(from, to) changes the state.
C16_DeleteEdge ==
  /\ [][\A e \in Range(state.edges) :
          deleteEdge(e.from, e.to)
            => /\ state'.nodes = state.nodes
               /\ IsRestriction(state'.edges, state.edges, LAMBDA d : d # e)
               /\ UNCHANGED <<selectedNode, connectingFrom, error, success>>]_vars
  /\ [](\A f \in Ids, t \in Ids :
          Edge(f, t) \notin Range(state.edges)
            => ~ENABLED (deleteEdge(f, t) /\ state' # state))

\* The middle edge of three was deleted: the first and the last are left, in
\* that order.
C16_Witness ==
  /\ [i \in DOMAIN state.nodes |-> state.nodes[i].id] = <<1, 2, 3>>
  /\ state.edges = <<Edge(1, 2), Edge(2, 3)>>
  /\ error = CycleMsg

\* -------------------------------------------------------------------- C17
\* C17: handleMouseMove changes nothing but the x and y of the nodes whose id
\* is selectedNode, and only while a drag is in progress: the edge list, the
\* number and order of the nodes and every node's id and label are as
\* before; a drag begins with a mousedown on a node and ends with the
\* mouseup or mouseleave of the canvas.
C17_PureCoordinateUpdate ==
  /\ [][\A clientX \in MoveXs, clientY \in MoveYs :
          handleMouseMove(clientX, clientY)
            => /\ state'.edges = state.edges
               /\ Len(state'.nodes) = Len(state.nodes)
               /\ \A i \in DOMAIN state.nodes :
                    /\ state'.nodes[i].id = state.nodes[i].id
                    /\ state'.nodes[i].label = state.nodes[i].label
                    /\ state'.nodes[i] # state.nodes[i]
                         => isDragging /\ state.nodes[i].id = selectedNode
               /\ UNCHANGED <<selectedNode, connectingFrom, error, success, isDragging>>]_vars
  /\ [][/\ (~isDragging /\ isDragging')
             => \E n \in Range(state.nodes), gx \in GrabXs, gy \in GrabYs :
                  handleNodeMouseDown(0, RectLeft + n.x + gx, RectTop + n.y + gy, n.id)
         /\ handleMouseUp => ~isDragging']_vars

\* The first of two connected nodes was dragged to the right border and
\* released; the second is where addNode put it.
C17_Witness ==
  /\ Len(state.nodes) = 2
  /\ state.nodes[1].x = RectWidth - 30
  /\ state.nodes[2].x = 100
  /\ state.edges = <<Edge(state.nodes[1].id, state.nodes[2].id)>>
  /\ ~isDragging

\* -------------------------------------------------------------------- C18
\* C18: clearGraph can run in every state, and every run of it leaves the
\* empty graph with no selected node and no pending connect source.
C18_ClearGraph ==
  /\ [](ENABLED clearGraph)
  /\ [][clearGraph =>
          /\ state'.nodes = << >>
          /\ state'.edges = << >>
          /\ selectedNode' = Null
          /\ connectingFrom' = Null]_vars

\* The graph is empty again after three nodes and an edge had been added.
C18_Witness ==
  /\ state = DAGState(<< >>, << >>)
  /\ now = 3
  /\ success = EdgeAddedMsg
  /\ selectedNode = Null
  /\ connectingFrom = Null

\* -------------------------------------------------------------------- C19
\* C19: every edge appended by addEdge passes the duplicate and the cycle
\* test on the graph it is appended to: no update queued by another callback
\* (the onload of importGraph, deleteNode, deleteEdge, clearGraph) changes
\* the graph between the tests, made on the rendered state, and the
\* application of the updater addEdge queued.
C19_ChecksMatchAppend ==
  [][\A n \in NodeIds(state) :
       (Len(state'.edges) = Len(Prev.edges) + 1 /\ AddEdgeCall(n))
         => /\ ~edgeExists(Prev, connectingFrom, n)
            /\ ~wouldCreateCycle(Prev, connectingFrom, n)]_vars

\* -------------------------------------------------------------------- C20
\* C20: in every reachable state the pending connect source and the selected
\* node, when not null, are ids of nodes currently in the graph.
C20_SelectionExists ==
  /\ selectedNode # Null => selectedNode \in NodeIds(state)
  /\ connectingFrom # Null => connectingFrom \in NodeIds(state)

====
